---- MODULE Spec2Model ----
(***************************************************************************)
(* Model of django/core/mail/backends/smtp.py: EmailBackend, the wrapper   *)
(* that manages one SMTP connection.  Threads call the three public        *)
(* operations open(), close() and send_messages() on one shared backend.   *)
(* The smtplib client is the environment: each network step either         *)
(* succeeds or raises one of the exceptions smtplib can raise.  Building   *)
(* a message (sanitize_address, message(), as_bytes()) belongs to the      *)
(* message objects and is taken to succeed.                                *)
(***************************************************************************)
EXTENDS Integers, Sequences, FiniteSets, TLC

\* ---- bounds ------------------------------------------------------------
\* MaxCalls: public calls made in one behaviour; MaxBatch: messages per batch.
MaxCalls == 2
MaxBatch == 2

\* The properties are about one call and about a pair of concurrent calls:
\* two threads share the backend.
Threads == {1, 2}

\* email_messages is read one message at a time.  A message is modelled by
\* whether email_message.recipients() is non-empty; a batch has at most
\* MaxBatch messages.

VARIABLES
    fail_silently, use_tls, use_ssl, username, password,
    connection,   \* self.connection: 0 is None, otherwise a connection object
    lock,         \* self._lock: 0 is free, otherwise the owning thread
    smtp,         \* the smtplib object self.connection refers to: how often
                  \* each command was issued on it, whether its socket is closed
    calls,        \* number of public calls made so far
    frame,        \* per thread: the running call, its position and locals
    hist          \* per thread: what the running call has done so far

cfgvars == <<fail_silently, use_tls, use_ssl, username, password>>
vars == <<fail_silently, use_tls, use_ssl, username, password,
          connection, lock, smtp, calls, frame, hist>>

\* ---- Python values and outcomes ----------------------------------------
PyNone == [tag |-> "None", v |-> 0]
PyTrue == [tag |-> "bool", v |-> 1]
PyFalse == [tag |-> "bool", v |-> 0]
PyInt(n) == [tag |-> "int", v |-> n]
PyTruthy(x) == x.v # 0

NoOutcome == [kind |-> "none", tag |-> "", v |-> 0]
Return(x) == [kind |-> "return", tag |-> x.tag, v |-> x.v]
Raise(exc) == [kind |-> "raise", tag |-> exc, v |-> 0]
Handler(name) == [kind |-> "handler", tag |-> name, v |-> 0]
ValOf(out) == [tag |-> out.tag, v |-> out.v]

\* smtplib.SMTPException and its subclass SMTPServerDisconnected.
SMTPException == {"SMTPException", "SMTPServerDisconnected"}

\* What a command on the smtplib object can do.  The server answers, refuses
\* (SMTPException) or drops the connection (SMTPServerDisconnected, and the
\* object closes its socket); once the socket is closed every command raises
\* SMTPServerDisconnected.  quit() on a TLS connection can raise ssl.SSLError.
Outcomes ==
    IF smtp.closed THEN {"SMTPServerDisconnected"}
    ELSE {"ok"} \cup SMTPException
ConnectOutcomes == {"ok", "SMTPException", "OSError"}
QuitOutcomes ==
    IF smtp.closed THEN {"SMTPServerDisconnected"}
    ELSE {"ok", "SSLError"} \cup SMTPException

\* self.connection holds the only reference to the smtplib object, so the
\* object is gone as soon as self.connection is None or another object.
Cmds == {"connect", "ehlo", "starttls", "login", "quit"}
NoSmtp == [issued |-> [c \in Cmds |-> 0], closed |-> FALSE]
Issue(cmd, out) ==
    [smtp EXCEPT !.issued[cmd] = @ + 1,
                 !.closed = @ \/ out = "SMTPServerDisconnected"
                              \/ (cmd = "quit" /\ out = "ok")]

\* ---- frames ------------------------------------------------------------
\* The locals of a call: op is the public operation called, pc the position.
NewFrame(op) ==
    [op |-> op, pc |-> "idle",
     i |-> 0,       \* messages of the batch read so far
     rcpt |-> 0,    \* how many of them had recipients
     num_sent |-> 0, new_conn_created |-> PyNone,
     pending |-> NoOutcome, res |-> NoOutcome]

\* The call is over with the given outcome, which the caller receives next.
Finish(f, out) == [f EXCEPT !.pc = "done", !.res = out]

\* History of a call, kept for the properties below.
NewHist ==
    [err |-> "", errStep |-> "",   \* last SMTP error raised by smtplib, and where
     startConn |-> 0,              \* self.connection when open() looked at it
     created |-> 0,                \* the connection this call constructed
     liveConn |-> 0,               \* self.connection at line 115
     attempts |-> 0, okSends |-> 0,\* sendmail calls issued / not raising
     quits |-> 0]                  \* quit calls issued

\* ---- exception handlers -------------------------------------------------
\* open(), lines 83-85
open_except(exc) ==
    IF exc \in SMTPException
    THEN IF ~fail_silently THEN Raise(exc) ELSE Return(PyNone)
    ELSE Raise(exc)

\* _send() with the test of line 139 inverted
_send_except_inverted(exc) ==
    IF exc \in SMTPException
    THEN IF fail_silently THEN Raise(exc) ELSE Return(PyFalse)
    ELSE Raise(exc)

\* _send(), lines 138-141
_send_except(exc) ==
    IF exc \in SMTPException
    THEN IF ~fail_silently THEN Raise(exc) ELSE Return(PyFalse)
    ELSE Raise(exc)

\* close(), lines 94-102
close_except(exc) ==
    IF exc \in {"SSLError", "SMTPServerDisconnected"}
    THEN Handler("connection.close")
    ELSE IF exc \in SMTPException
         THEN IF fail_silently THEN Return(PyNone) ELSE Raise(exc)
         ELSE Raise(exc)

\* ---- send_messages() loop, lines 120-126 --------------------------------
\* the loop without the test of line 122
CountSentAlways(num_sent, sent) == num_sent + 1

\* lines 122-123
CountSent(num_sent, sent) == IF PyTruthy(sent) THEN num_sent + 1 ELSE num_sent

\* lines 124-126: after the loop
Fin(f) ==
    IF PyTruthy(f.new_conn_created)
    THEN [f EXCEPT !.pc = "close_check"]
    ELSE Finish(f, Return(PyInt(f.num_sent)))

\* lines 120-123 with _send() lines 130-131: the ways the loop can go on to
\* its next sendmail or to its end.  The batch is not empty (line 111); a
\* message without recipients makes _send() return False; a message with
\* recipients leads to sendmail.
RECURSIVE Loop(_)
Loop(f) ==
    (IF f.i >= 1 THEN {Fin(f)} ELSE {})
    \cup
    (IF f.i < MaxBatch
     THEN {[f EXCEPT !.i = @ + 1, !.rcpt = @ + 1, !.pc = "sendmail"]}
          \cup Loop([f EXCEPT !.i = @ + 1,
                              !.num_sent = CountSent(@, PyFalse)])
     ELSE {})

\* ---- returning from open() and close() ---------------------------------
\* open() returns to its caller: the user, or send_messages() line 114
OpenDone(f, out) ==
    IF f.op = "open" \/ out.kind = "raise"
    THEN Finish(f, out)
    ELSE [f EXCEPT !.pc = "sm_check", !.new_conn_created = ValOf(out)]

\* close() returns to its caller: the user, or send_messages() lines 125-126
CloseDone(f, out) ==
    IF f.op = "close" \/ out.kind = "raise"
    THEN Finish(f, out)
    ELSE Finish(f, Return(PyInt(f.num_sent)))

\* lines 61-63
OpenCheck(f) ==
    IF connection # 0
    THEN OpenDone(f, Return(PyFalse))
    ELSE [f EXCEPT !.pc = "open_connect"]

\* lines 89-90
CloseCheck(f) ==
    IF connection = 0
    THEN CloseDone(f, Return(PyNone))
    ELSE [f EXCEPT !.pc = "close_quit"]

\* lines 76-82: what open() does next after the given setup step
AfterSetup(f, step) ==
    IF step = "open_connect" /\ ~use_ssl /\ use_tls
    THEN [f EXCEPT !.pc = "open_ehlo1"]
    ELSE IF step = "open_ehlo1" THEN [f EXCEPT !.pc = "open_starttls"]
    ELSE IF step = "open_starttls" THEN [f EXCEPT !.pc = "open_ehlo2"]
    ELSE IF step # "open_login" /\ username # "" /\ password # ""
         THEN [f EXCEPT !.pc = "open_login"]
         ELSE OpenDone(f, Return(PyTrue))

\* send_messages() without the lock
AcquireAlways(t) == TRUE

\* threading.RLock, line 35: free, or already owned by the calling thread
AcquireOk(t) == lock = 0 \/ lock = t

\* leaving the with block of line 113 (normally or by an exception) releases
\* the lock
LockAfter(t, f) == IF f.pc = "done" /\ lock = t THEN 0 ELSE lock

RecordErr(h, step, out) ==
    IF out \in SMTPException
    THEN [h EXCEPT !.err = out, !.errStep = step]
    ELSE h

\* A new smtplib object is distinct from every object still referred to;
\* objects are only ever compared for identity.
FreshConn ==
    LET held == {connection} \cup
                UNION {{hist[u].startConn, hist[u].created, hist[u].liveConn}
                       : u \in Threads}
    IN CHOOSE c \in 1..(Cardinality(held) + 1) :
         c \notin held /\ \A d \in 1..(c - 1) : d \in held

\* The threads are interchangeable: the one that makes the first call is
\* called thread 1.
MayCall(t) == t = 1 \/ calls > 0

\* Thread t is at position p.  A call that is over returns to its caller
\* before anything else happens.
At(t, p) ==
    /\ frame[t].pc = p
    /\ \A u \in Threads : frame[u].pc # "done"

\* ---- initial state: __init__, lines 18-35 -------------------------------
Init ==
    /\ fail_silently \in BOOLEAN
    /\ use_tls \in BOOLEAN
    /\ use_ssl \in BOOLEAN
    /\ ~(use_ssl /\ use_tls)
    /\ username \in {"", "user"}
    /\ password \in {"", "secret"}
    /\ connection = 0
    /\ lock = 0
    /\ smtp = NoSmtp
    /\ calls = 0
    /\ frame = [t \in Threads |-> NewFrame("none")]
    /\ hist = [t \in Threads |-> NewHist]

\* ---- send_messages() ---------------------------------------------------
\* lines 106-112: the call, and the early return for an empty batch
send_messages(t) ==
    /\ At(t, "idle")
    /\ calls < MaxCalls
    /\ MayCall(t)
    /\ \E empty \in BOOLEAN :
         frame' = [frame EXCEPT ![t] =
                     IF empty
                     THEN Finish(NewFrame("send"), Return(PyNone))
                     ELSE [NewFrame("send") EXCEPT !.pc = "acquire"]]
    /\ hist' = [hist EXCEPT ![t] = NewHist]
    /\ calls' = calls + 1
    /\ UNCHANGED <<cfgvars, connection, lock, smtp>>

\* lines 113-114: take the lock and enter open(), lines 61-63
acquire(t) ==
    /\ At(t, "acquire")
    /\ AcquireOk(t)
    /\ lock' = t
    /\ frame' = [frame EXCEPT ![t] = OpenCheck(@)]
    /\ hist' = [hist EXCEPT ![t].startConn = connection]
    /\ UNCHANGED <<cfgvars, connection, smtp, calls>>

\* lines 115-119, then the loop up to the first sendmail
sm_check(t) ==
    /\ At(t, "sm_check")
    /\ \E f \in IF connection = 0
               THEN {Finish(frame[t], Return(PyNone))}
               ELSE Loop([frame[t] EXCEPT !.num_sent = 0]) :
          /\ frame' = [frame EXCEPT ![t] = f]
          /\ lock' = LockAfter(t, f)
    /\ hist' = [hist EXCEPT ![t].liveConn = connection]
    /\ UNCHANGED <<cfgvars, connection, smtp, calls>>

\* _send() lines 132-142, then lines 122-123 and the loop up to the next
\* sendmail
sendmail(t) ==
    /\ At(t, "sendmail")
    /\ LET c == connection
           h == [hist[t] EXCEPT !.attempts = @ + 1]
       IN
       IF c = 0
       THEN \* None has no attribute sendmail
            LET f == Finish(frame[t], Raise("AttributeError")) IN
            /\ frame' = [frame EXCEPT ![t] = f]
            /\ lock' = LockAfter(t, f)
            /\ hist' = [hist EXCEPT ![t] = h]
            /\ UNCHANGED smtp
       ELSE \E out \in Outcomes :
            LET r == IF out = "ok" THEN Return(PyTrue) ELSE _send_except(out)
            IN \E f \in IF r.kind = "raise"
                        THEN {Finish(frame[t], r)}
                        ELSE Loop([frame[t] EXCEPT
                                     !.num_sent = CountSent(@, ValOf(r))]) :
               /\ frame' = [frame EXCEPT ![t] = f]
               /\ lock' = LockAfter(t, f)
               /\ hist' = [hist EXCEPT ![t] =
                             RecordErr([h EXCEPT !.okSends =
                                          IF out = "ok" THEN @ + 1 ELSE @],
                                       "sendmail", out)]
               /\ smtp' = [smtp EXCEPT !.closed =
                                        @ \/ out = "SMTPServerDisconnected"]
    /\ UNCHANGED <<cfgvars, connection, calls>>

\* ---- open() --------------------------------------------------------------
\* lines 56-63: a direct call by the user
open(t) ==
    /\ At(t, "idle")
    /\ calls < MaxCalls
    /\ MayCall(t)
    /\ frame' = [frame EXCEPT ![t] = OpenCheck(NewFrame("open"))]
    /\ hist' = [hist EXCEPT ![t] = [NewHist EXCEPT !.startConn = connection]]
    /\ calls' = calls + 1
    /\ UNCHANGED <<cfgvars, connection, lock, smtp>>

\* line 72: construct the smtplib object, which connects, and store it
open_connect(t) ==
    /\ At(t, "open_connect")
    /\ \E out \in ConnectOutcomes :
         IF out = "ok"
         THEN LET c == FreshConn
                  f == AfterSetup(frame[t], "open_connect")
              IN
              /\ smtp' = [NoSmtp EXCEPT !.issued["connect"] = 1]
              /\ connection' = c
              /\ frame' = [frame EXCEPT ![t] = f]
              /\ lock' = LockAfter(t, f)
              /\ hist' = [hist EXCEPT ![t].created = c]
         ELSE LET f == OpenDone(frame[t], open_except(out)) IN
              /\ frame' = [frame EXCEPT ![t] = f]
              /\ lock' = LockAfter(t, f)
              /\ hist' = [hist EXCEPT ![t] = RecordErr(@, "connect", out)]
              /\ UNCHANGED <<connection, smtp>>
    /\ UNCHANGED <<cfgvars, calls>>

\* One smtplib call of open() on self.connection: ehlo (77), starttls (78),
\* ehlo (79) or login (81), with the handler of lines 83-85.
SetupStep(t, step, cmd) ==
    /\ At(t, step)
    /\ LET c == connection IN
       IF c = 0
       THEN \* None has no such attribute
            LET f == OpenDone(frame[t], Raise("AttributeError")) IN
            /\ frame' = [frame EXCEPT ![t] = f]
            /\ lock' = LockAfter(t, f)
            /\ UNCHANGED <<smtp, hist>>
       ELSE \E out \in Outcomes :
            LET f == IF out = "ok" THEN AfterSetup(frame[t], step)
                     ELSE OpenDone(frame[t], open_except(out))
            IN /\ frame' = [frame EXCEPT ![t] = f]
               /\ lock' = LockAfter(t, f)
               /\ smtp' = Issue(cmd, out)
               /\ hist' = [hist EXCEPT ![t] = RecordErr(@, cmd, out)]
    /\ UNCHANGED <<cfgvars, connection, calls>>

\* lines 76-79
open_starttls(t) ==
    \/ SetupStep(t, "open_ehlo1", "ehlo")
    \/ SetupStep(t, "open_starttls", "starttls")
    \/ SetupStep(t, "open_ehlo2", "ehlo")

\* lines 80-82
open_login(t) == SetupStep(t, "open_login", "login")

\* ---- close() -------------------------------------------------------------
\* lines 87-90: a direct call by the user
close(t) ==
    /\ At(t, "idle")
    /\ calls < MaxCalls
    /\ MayCall(t)
    /\ frame' = [frame EXCEPT ![t] = CloseCheck(NewFrame("close"))]
    /\ hist' = [hist EXCEPT ![t] = NewHist]
    /\ calls' = calls + 1
    /\ UNCHANGED <<cfgvars, connection, lock, smtp>>

\* line 125 entering close(), lines 89-90
close_check(t) ==
    /\ At(t, "close_check")
    /\ LET f == CloseCheck(frame[t])
       IN /\ frame' = [frame EXCEPT ![t] = f]
          /\ lock' = LockAfter(t, f)
    /\ UNCHANGED <<cfgvars, connection, smtp, calls, hist>>

\* lines 93-102: quit() and the choice of handler
close_quit(t) ==
    /\ At(t, "close_quit")
    /\ LET c == connection IN
       IF c = 0
       THEN \* None has no attribute quit
            /\ frame' = [frame EXCEPT ![t].pc = "close_finally",
                                      ![t].pending = Raise("AttributeError")]
            /\ UNCHANGED <<smtp, hist>>
       ELSE \E out \in QuitOutcomes :
            LET r == IF out = "ok" THEN Return(PyNone) ELSE close_except(out)
            IN /\ frame' = [frame EXCEPT ![t] =
                              IF r.kind = "handler"
                              THEN [@ EXCEPT !.pc = "close_sock"]
                              ELSE [@ EXCEPT !.pc = "close_finally",
                                             !.pending = r]]
               /\ smtp' = Issue("quit", out)
               /\ hist' = [hist EXCEPT ![t] =
                             RecordErr([@ EXCEPT !.quits = @ + 1], "quit", out)]
    /\ UNCHANGED <<cfgvars, connection, lock, calls>>

\* line 98: self.connection.close() in the handler of lines 94-98
close_sock(t) ==
    /\ At(t, "close_sock")
    /\ LET c == connection IN
       IF c = 0
       THEN \* None has no attribute close
            /\ frame' = [frame EXCEPT ![t].pc = "close_finally",
                                      ![t].pending = Raise("AttributeError")]
            /\ UNCHANGED smtp
       ELSE /\ frame' = [frame EXCEPT ![t].pc = "close_finally",
                                      ![t].pending = Return(PyNone)]
            /\ smtp' = [smtp EXCEPT !.closed = TRUE]
    /\ UNCHANGED <<cfgvars, connection, lock, calls, hist>>

\* lines 103-104, then close() returns or raises what is pending
close_finally(t) ==
    /\ At(t, "close_finally")
    /\ connection' = 0
    /\ smtp' = NoSmtp
    /\ LET f == CloseDone(frame[t], frame[t].pending)
       IN /\ frame' = [frame EXCEPT ![t] = f]
          /\ lock' = LockAfter(t, f)
    /\ UNCHANGED <<cfgvars, calls, hist>>

\* The caller receives the outcome; the frame of the call is gone.  This
\* touches nothing shared, so it commutes with every step of the other
\* threads: it is taken as soon as the call is over (see At).
returned(t) ==
    /\ frame[t].pc = "done"
    /\ frame' = [frame EXCEPT ![t] = NewFrame("none")]
    /\ hist' = [hist EXCEPT ![t] = NewHist]
    /\ UNCHANGED <<cfgvars, connection, lock, smtp, calls>>

\* ---- specification -------------------------------------------------------
Next ==
    \/ \E t \in Threads : send_messages(t)
    \/ \E t \in Threads : acquire(t)
    \/ \E t \in Threads : sm_check(t)
    \/ \E t \in Threads : sendmail(t)
    \/ \E t \in Threads : open(t)
    \/ \E t \in Threads : open_connect(t)
    \/ \E t \in Threads : open_starttls(t)
    \/ \E t \in Threads : open_login(t)
    \/ \E t \in Threads : close(t)
    \/ \E t \in Threads : close_check(t)
    \/ \E t \in Threads : close_quit(t)
    \/ \E t \in Threads : close_sock(t)
    \/ \E t \in Threads : close_finally(t)
    \/ \E t \in Threads : returned(t)

Spec == Init /\ [][Next]_vars

\* One thread only: the backend used sequentially.
NextSeq ==
    \/ send_messages(1)
    \/ acquire(1)
    \/ sm_check(1)
    \/ sendmail(1)
    \/ open(1)
    \/ open_connect(1)
    \/ open_starttls(1)
    \/ open_login(1)
    \/ close(1)
    \/ close_check(1)
    \/ close_quit(1)
    \/ close_sock(1)
    \/ close_finally(1)
    \/ returned(1)

SpecSeq == Init /\ [][NextSeq]_vars

\* ---- properties ----------------------------------------------------------
Done(t) == frame[t].pc = "done"
Returned(t) == Done(t) /\ frame[t].res.kind = "return"
RaisedSMTP(t) ==
    Done(t) /\ frame[t].res.kind = "raise" /\ frame[t].res.tag \in SMTPException
\* thread t is inside the with block of send_messages()
InWith(t) ==
    frame[t].op = "send" /\ frame[t].pc \notin {"idle", "acquire", "done"}
\* thread t takes the step it is about to take at position p
StepAt(t, p) == frame[t].pc = p /\ frame'[t] # frame[t]
QuitDisconnected(t) ==
    hist[t].errStep = "quit" /\ hist[t].err = "SMTPServerDisconnected"

\* C1 as stated: when a call is over, an SMTP error has propagated out of it
\* only if fail_silently is false, and if fail_silently is false and smtplib
\* raised an SMTP error in the call, the call has raised that error.
C1_FlagAloneDecides ==
    \A t \in Threads :
        /\ RaisedSMTP(t) => ~fail_silently
        /\ (Done(t) /\ ~fail_silently /\ hist[t].err # "")
             => frame[t].res = Raise(hist[t].err)

\* C1 as amended: fail_silently decides for every SMTP error except an
\* SMTPServerDisconnected raised by quit(), which close() never propagates:
\* under fail_silently no SMTP error leaves a call; without it every SMTP
\* error other than a disconnect on quit leaves the call it occurred in; a
\* disconnect on quit leaves no call.
C1_FlagDecidesExceptQuitDisconnect ==
    \A t \in Threads :
        /\ RaisedSMTP(t) => ~fail_silently
        /\ (Done(t) /\ ~fail_silently /\ hist[t].err # ""
              /\ ~QuitDisconnected(t))
             => frame[t].res = Raise(hist[t].err)
        /\ (Done(t) /\ QuitDisconnected(t)) => ~RaisedSMTP(t)

\* fail_silently is false, quit() raised SMTPServerDisconnected, and the call
\* has returned normally.
C1_Witness ==
    \E t \in Threads :
        Returned(t) /\ ~fail_silently /\ QuitDisconnected(t)

\* C2: when send_messages() found a connection at line 115 and returns, it
\* returns the number of sendmail calls that did not raise, and sendmail was
\* called once for each message with recipients and for no other message.
C2_ReturnsNumberSent ==
    \A t \in Threads :
        (Returned(t) /\ frame[t].op = "send" /\ hist[t].liveConn # 0)
          => /\ frame[t].res = Return(PyInt(hist[t].okSends))
             /\ hist[t].attempts = frame[t].rcpt
             /\ hist[t].okSends <= hist[t].attempts

\* Under fail_silently a batch of two messages with recipients has returned
\* 1: one sendmail raised, both were attempted.
C2_Witness ==
    \E t \in Threads :
        /\ Returned(t) /\ frame[t].op = "send" /\ hist[t].liveConn # 0
        /\ fail_silently
        /\ frame[t].i = 2 /\ frame[t].rcpt = 2
        /\ hist[t].attempts = 2 /\ hist[t].okSends = 1
        /\ frame[t].res = Return(PyInt(1))

\* C3: every send_messages() call that returns returns a number.
C3_ReturnsANumber ==
    \A t \in Threads :
        (Returned(t) /\ frame[t].op = "send") => frame[t].res.tag = "int"

\* C4: whenever open() returns (to the user, or to send_messages() at line
\* 114) the backend holds a connection and the value is True if this call
\* constructed the connection and False if one was already open.
OpenReturned(t) ==
    \/ Returned(t) /\ frame[t].op = "open"
    \/ frame[t].pc = "sm_check"
OpenValue(t) ==
    IF frame[t].pc = "sm_check" THEN frame[t].new_conn_created
    ELSE ValOf(frame[t].res)
C4_OpenReturnsBool ==
    \A t \in Threads :
        OpenReturned(t)
          => /\ connection # 0
             /\ OpenValue(t) \in {PyTrue, PyFalse}
             /\ OpenValue(t) = PyTrue <=> hist[t].created # 0
             /\ OpenValue(t) = PyFalse <=> hist[t].startConn # 0

\* C5: at most one thread is inside the with block of send_messages(), that
\* thread owns the lock, and the lock is free whenever no thread is inside
\* (a call that returned or raised has released it).
C5_MutualExclusion ==
    /\ \A t, u \in Threads : (InWith(t) /\ InWith(u)) => t = u
    /\ \A t \in Threads : InWith(t) => lock = t
    /\ lock # 0 => InWith(lock)

\* A send_messages() call has raised and the lock is free, while the other
\* thread is waiting for the lock.
C5_Witness ==
    \E t, u \in Threads :
        /\ t # u
        /\ Done(t) /\ frame[t].op = "send" /\ frame[t].res.kind = "raise"
        /\ lock = 0
        /\ frame[u].pc = "acquire"

\* C6 as stated: while a thread is inside send_messages() no other thread
\* changes self.connection, and every sendmail of the batch is issued on the
\* connection found at line 115, never on None.
C6_GuardedAgainstEveryOperation ==
    [][\A t \in Threads :
         /\ (InWith(t) /\ connection' # connection) => frame'[t] # frame[t]
         /\ StepAt(t, "sendmail")
              => (connection # 0 /\ connection = hist[t].liveConn)]_vars

\* C6 as amended: the lock guards the connection against concurrent
\* send_messages() calls only.  While a thread is inside send_messages(),
\* self.connection is changed by that thread or by an open() or close() that
\* another thread called directly, never by another send_messages() call.
C6_GuardedAgainstSendMessagesOnly ==
    [][\A t \in Threads :
         (InWith(t) /\ connection' # connection)
           => \/ frame'[t] # frame[t]
              \/ \E u \in Threads :
                   /\ u # t
                   /\ frame'[u] # frame[u]
                   /\ frame[u].op \in {"open", "close"}]_vars

\* A thread is in the middle of its batch, on the connection it found at
\* line 115, while a send_messages() call of the other thread waits.
C6_Witness ==
    \E t, u \in Threads :
        /\ t # u
        /\ frame[t].op = "send" /\ frame[t].pc = "sendmail"
        /\ hist[t].attempts >= 1
        /\ connection # 0 /\ connection = hist[t].liveConn
        /\ frame[u].pc = "acquire"

\* C7: the commands issued on a connection object so far
Issued(e, s, l) ==
    [c \in Cmds |-> CASE c = "connect" -> 1
                      [] c = "ehlo" -> e
                      [] c = "starttls" -> s
                      [] c = "login" -> l
                      [] c = "quit" -> 0]
WantsTls == use_tls /\ ~use_ssl
WantsLogin == username # "" /\ password # ""
SetupBefore(p) ==
    CASE p = "open_ehlo1" -> Issued(0, 0, 0)
      [] p = "open_starttls" -> Issued(1, 0, 0)
      [] p = "open_ehlo2" -> Issued(1, 1, 0)
      [] p = "open_login" -> IF WantsTls THEN Issued(2, 1, 0)
                             ELSE Issued(0, 0, 0)
      [] p = "sendmail" -> Issued(IF WantsTls THEN 2 ELSE 0,
                                  IF WantsTls THEN 1 ELSE 0,
                                  IF WantsLogin THEN 1 ELSE 0)

\* C7: every command is issued on a connection on which exactly the steps
\* before it have been issued: connect, then ehlo, starttls, ehlo iff use_tls
\* and not use_ssl, then login iff username and password are non-empty;
\* starttls is never issued on an SSL connection; sendmail in send_messages()
\* comes after all of them and before quit.
C7_SetupOrder ==
    [][/\ smtp.issued["starttls"] > 0 => ~use_ssl
       /\ \A t \in Threads :
            \A p \in {"open_ehlo1", "open_starttls", "open_ehlo2",
                      "open_login", "sendmail"} :
               (StepAt(t, p) /\ connection # 0)
                 => smtp.issued = SetupBefore(p)]_vars

\* C8: when send_messages() returns, it has closed the connection iff it
\* constructed it; if a connection was open when the call began, the call made
\* no connect and no quit and leaves that connection open; if none was open
\* and open() returned True, the connection is closed and the backend holds
\* none.
C8_ClosesIffCreated ==
    \A t \in Threads :
        (Returned(t) /\ frame[t].op = "send")
          => /\ hist[t].quits > 0 <=> hist[t].created # 0
             /\ hist[t].startConn # 0
                  => /\ hist[t].created = 0
                     /\ hist[t].quits = 0
                     /\ hist[t].liveConn = hist[t].startConn
                     /\ connection = hist[t].startConn
             /\ (hist[t].startConn = 0 /\ frame[t].new_conn_created = PyTrue)
                  => (hist[t].quits > 0 /\ connection = 0)
====
